---- MODULE Spec2Model ----
(***************************************************************************)
(* Model of range/v3/view/iota.hpp: the difference-type resolver           *)
(* (detail::iota_difference_), detail::iota_minus, iota_view,              *)
(* closed_iota_view and the entry points view::iota / view::ints, for the  *)
(* integral value types of width 8, 16, 32 and 64 bits.                    *)
(*                                                                         *)
(* Integers are kept at their machine width.  A number is a little-endian  *)
(* sequence of NB bytes in two's complement, so that 64-bit values and     *)
(* their exact (unwrapped) sums and differences are all representable.     *)
(***************************************************************************)
EXTENDS Integers, Sequences, FiniteSets

\* ------------------------------------------------------------------------
\* Bounds of the model
\* ------------------------------------------------------------------------

\* bytes of the two's-complement container holding exact results (>= 9)
NB == 9

\* calls made on one generator in one behaviour
MaxSteps == 3

\* ------------------------------------------------------------------------
\* Platform: bits per byte and the width of int (integral promotion)
\* ------------------------------------------------------------------------

CHAR_BIT == 8

IntBits == 32

Base == 2 ^ CHAR_BIT

\* ------------------------------------------------------------------------
\* Exact integer arithmetic on NB-byte two's-complement numbers
\* ------------------------------------------------------------------------

Num(n) ==
    [i \in 1..NB |-> IF i <= 4 THEN (n \div (Base ^ (i - 1))) % Base
                     ELSE IF n < 0 THEN Base - 1 ELSE 0]

RECURSIVE Carry(_, _, _)
Carry(a, b, i) ==
    IF i = 1 THEN 0 ELSE (a[i - 1] + b[i - 1] + Carry(a, b, i - 1)) \div Base

Add(a, b) == [i \in 1..NB |-> (a[i] + b[i] + Carry(a, b, i)) % Base]

Neg(a) == Add([i \in 1..NB |-> Base - 1 - a[i]], Num(1))

Sub(a, b) == Add(a, Neg(b))

IsNeg(a) == a[NB] >= Base \div 2

Less(a, b) == IsNeg(Sub(a, b))

Leq(a, b) == ~Less(b, a)

\* ------------------------------------------------------------------------
\* Integral types: [bits, sgn]
\* ------------------------------------------------------------------------

Widths == {8, 16, 32, 64}

IntegralTypes == [bits : Widths, sgn : BOOLEAN]

IntT == [bits |-> IntBits, sgn |-> TRUE]

SizeOf(t) == t.bits \div CHAR_BIT

\* conversion of a number to type t: keep the low bytes, sign- or zero-extend
Conv(x, t) ==
    LET n == SizeOf(t)
        fill == IF t.sgn /\ x[n] >= Base \div 2 THEN Base - 1 ELSE 0
    IN  [i \in 1..NB |-> IF i <= n THEN x[i] ELSE fill]

InRange(x, t) == Conv(x, t) = x

TypeMin(t) ==
    IF t.sgn
    THEN [i \in 1..NB |-> IF i < SizeOf(t) THEN 0
                          ELSE IF i = SizeOf(t) THEN Base \div 2 ELSE Base - 1]
    ELSE Num(0)

TypeMax(t) ==
    IF t.sgn
    THEN [i \in 1..NB |-> IF i < SizeOf(t) THEN Base - 1
                          ELSE IF i = SizeOf(t) THEN Base \div 2 - 1 ELSE 0]
    ELSE [i \in 1..NB |-> IF i <= SizeOf(t) THEN Base - 1 ELSE 0]

\* integral promotion: a type narrower than int becomes int
Promote(t) == IF t.bits < IntBits THEN IntT ELSE t

\* usual arithmetic conversions: the type a binary + or - is computed in
CommonType(t1, t2) ==
    LET p1 == Promote(t1)
        p2 == Promote(t2)
    IN  IF p1.sgn = p2.sgn
        THEN (IF p1.bits >= p2.bits THEN p1 ELSE p2)
        ELSE LET u == IF p1.sgn THEN p2 ELSE p1
                 s == IF p1.sgn THEN p1 ELSE p2
             IN  IF u.bits >= s.bits THEN u ELSE s

\* a signed result outside its type is undefined behaviour
Overflows(exact, t) == t.sgn /\ ~InRange(exact, t)

\* the values an arithmetic result of type t can take: the exact value, the
\* wrapped value for unsigned t, any of several values after signed overflow
ArithResult(exact, t) ==
    IF Overflows(exact, t)
    THEN {Conv(exact, t), TypeMin(t), TypeMax(t), Num(0)}
    ELSE {Conv(exact, t)}

\* ------------------------------------------------------------------------
\* detail::iota_difference_ (RandomAccessIota, integral)
\* ------------------------------------------------------------------------

\* decltype(std::declval<Val>() - std::declval<Val>())
difference_t(Val) == CommonType(Val, Val)

make_signed(t) == [bits |-> t.bits, sgn |-> TRUE]

int_fast8_t == [bits |-> 8, sgn |-> TRUE]

int_fast16_t == [bits |-> 64, sgn |-> TRUE]

int_fast32_t == [bits |-> 64, sgn |-> TRUE]

int_fast64_t == [bits |-> 64, sgn |-> TRUE]

iota_difference_t(Val) ==
    LET bits == SizeOf(difference_t(Val)) * CHAR_BIT
    IN  IF Val # difference_t(Val)
        THEN make_signed(difference_t(Val))
        ELSE IF bits < 8 THEN int_fast8_t
        ELSE IF bits < 16 THEN int_fast16_t
        ELSE IF bits < 32 THEN int_fast32_t
        ELSE int_fast64_t

\* ------------------------------------------------------------------------
\* detail::iota_minus
\* ------------------------------------------------------------------------

\* SignedIntegral overload: (D) v0 - (D) v1
iota_minus_signed(Val, v0, v1) ==
    LET D == iota_difference_t(Val)
        T == CommonType(D, D)
    IN  {Conv(r, D) : r \in ArithResult(Sub(Conv(v0, D), Conv(v1, D)), T)}

\* variant of the unsigned overload that widens before subtracting,
\* (D) v0 - (D) v1, as the signed overload does
iota_minus_unsigned_widened(Val, v0, v1) ==
    LET D == iota_difference_t(Val)
    IN  {Conv(r, D) :
            r \in ArithResult(Sub(Conv(v0, D), Conv(v1, D)), CommonType(D, D))}

\* UnsignedIntegral overload: (D) (v0 - v1)
iota_minus_unsigned(Val, v0, v1) ==
    LET D == iota_difference_t(Val)
        T == CommonType(Val, Val)
    IN  {Conv(r, D) : r \in ArithResult(Sub(Conv(v0, T), Conv(v1, T)), T)}

iota_minus(Val, v0, v1) ==
    IF Val.sgn THEN iota_minus_signed(Val, v0, v1)
    ELSE iota_minus_unsigned(Val, v0, v1)

\* the subtraction of iota_minus overflows its signed type
iota_minus_overflows(Val, v0, v1) ==
    LET D == iota_difference_t(Val)
    IN  IF Val.sgn
        THEN Overflows(Sub(Conv(v0, D), Conv(v1, D)), CommonType(D, D))
        ELSE Overflows(Sub(Conv(v0, CommonType(Val, Val)),
                           Conv(v1, CommonType(Val, Val))), CommonType(Val, Val))

\* ------------------------------------------------------------------------
\* Increment, decrement and += on a Val (iota_view and closed_iota_view)
\* ------------------------------------------------------------------------

\* ++v
PreInc(Val, v) ==
    {Conv(r, Val) : r \in ArithResult(Add(v, Num(1)), Promote(Val))}

\* --v
PreDec(Val, v) ==
    {Conv(r, Val) : r \in ArithResult(Sub(v, Num(1)), Promote(Val))}

\* v += n, n of type iota_difference_t<Val>
PlusAssign(Val, v, n) ==
    LET T == CommonType(Val, iota_difference_t(Val))
    IN  {Conv(r, Val) : r \in ArithResult(Add(Conv(v, T), Conv(n, T)), T)}

\* ------------------------------------------------------------------------
\* iota_view<Val>
\* ------------------------------------------------------------------------

iota_view_current(v) == v

\* variant of next() that steps the wrong way
iota_view_next_down(Val, v) == PreDec(Val, v)

iota_view_next(Val, v) == PreInc(Val, v)

iota_view_done == FALSE

iota_view_prev(Val, v) == PreDec(Val, v)

iota_view_advance(Val, v, n) == PlusAssign(Val, v, n)

\* this.distance_to(that)
iota_view_distance_to(Val, v, that) == iota_minus(Val, that, v)

\* ------------------------------------------------------------------------
\* closed_iota_view<Val, Val2 = Val>; an object is [from_, to_, done_]
\* ------------------------------------------------------------------------

\* closed_iota_view(Val from, Val2 to), done_ = false
closed_iota_view(from, to) == [from_ |-> from, to_ |-> to, done_ |-> FALSE]

closed_iota_view_current(o) == o.from_

\* variant of next() with an exclusive bound: it increments first and is
\* done as soon as from_ arrives at to_
closed_iota_view_next_exclusive(Val, o) ==
    {[o EXCEPT !.from_ = f, !.done_ = (o.done_ \/ f = o.to_)] :
        f \in PreInc(Val, o.from_)}

\* variant of next() that also increments when it finishes
closed_iota_view_next_overrun(Val, o) ==
    {[o EXCEPT !.from_ = f, !.done_ = (o.done_ \/ o.from_ = o.to_)] :
        f \in PreInc(Val, o.from_)}

closed_iota_view_next(Val, o) ==
    IF o.from_ = o.to_
    THEN {[o EXCEPT !.done_ = TRUE]}
    ELSE {[o EXCEPT !.from_ = f] : f \in PreInc(Val, o.from_)}

closed_iota_view_done(o) == o.done_

\* variant of prev() that makes the view live again
closed_iota_view_prev_reopen(Val, o) ==
    {[o EXCEPT !.from_ = f, !.done_ = FALSE] : f \in PreDec(Val, o.from_)}

closed_iota_view_prev(Val, o) ==
    {[o EXCEPT !.from_ = f] : f \in PreDec(Val, o.from_)}

\* variant of advance(n) with the assertion compiled out
closed_iota_view_advance_unchecked(Val, o, n) ==
    {[obj |-> [o EXCEPT !.from_ = f], failed |-> FALSE] :
        f \in PlusAssign(Val, o.from_, n)}

\* advance(n): RANGES_ASSERT(iota_minus(to_, from_) >= n); from_ += n.
\* An outcome is [obj, failed]; a failed assertion leaves the object alone.
closed_iota_view_advance(Val, o, n) ==
    UNION {IF Leq(n, d)
           THEN {[obj |-> [o EXCEPT !.from_ = f], failed |-> FALSE] :
                    f \in PlusAssign(Val, o.from_, n)}
           ELSE {[obj |-> o, failed |-> TRUE]} :
           d \in iota_minus(Val, o.to_, o.from_)}

\* ------------------------------------------------------------------------
\* view::iota(from, to) and view::ints(from, to)
\* ------------------------------------------------------------------------

\* iota_fn::impl, RandomAccessIota overload, and ints_fn::operator()(Val, Val):
\* take_view{iota_view{from}, iota_minus(to, from) + 1}
iota_fn_impl_take(Val, from, to) ==
    LET D == iota_difference_t(Val)
        T == CommonType(D, IntT)
    IN  UNION {{[value_ |-> from, count_ |-> Conv(c, D)] :
                    c \in ArithResult(Add(Conv(d, T), Num(1)), T)} :
               d \in iota_minus(Val, to, from)}

\* iota_fn::impl, InputIota overload
iota_fn_impl_closed(from, to) == closed_iota_view(from, to)

\* take_view: the first count elements of the underlying view
take_view_done(count, taken) == Leq(count, Num(taken))

\* ------------------------------------------------------------------------
\* State
\* ------------------------------------------------------------------------

VARIABLES
    Val,        \* the integral value type the templates are instantiated with
    pc,         \* position of the caller
    v0, v1,     \* arguments of a call of detail::iota_minus
    ret,        \* value returned by iota_minus / distance_to: [type, val]
    value_,     \* iota_view::value_
    that_,      \* value_ of a second iota_view (argument of distance_to)
    from_,      \* closed_iota_view::from_
    to_,        \* closed_iota_view::to_
    done_,      \* closed_iota_view::done_
    count_,     \* element count handed to take_view
    outT,       \* values read from the take_view so far
    outC,       \* values read from the closed_iota_view so far
    start,      \* history: the value a generator was constructed with
    K,          \* history: number of calls made on the generator
    hist        \* history: which kinds of calls were made

vars == <<Val, pc, v0, v1, ret, value_, that_, from_, to_, done_, count_,
          outT, outC, start, K, hist>>

diffVars == <<v0, v1>>

iotaVars == <<value_, that_>>

closedVars == <<from_, to_, done_>>

takeVars == <<count_, outT, outC>>

NoRet == [type |-> IntT, val |-> Num(0), ovf |-> FALSE]

NoHist == [onlyNext |-> TRUE, prev |-> FALSE, moved |-> FALSE, under |-> FALSE,
           rt |-> "none"]

IdleDiff == v0 = Num(0) /\ v1 = Num(0)

IdleIota == value_ = Num(0) /\ that_ = Num(0)

IdleClosed == from_ = Num(0) /\ to_ = Num(0) /\ done_ = FALSE

IdleTake == count_ = Num(0) /\ outT = <<>> /\ outC = <<>>

\* values of type t the arguments are drawn from: the extremes, their
\* neighbours, the half-range point and small values
Samples(t) ==
    IF t.sgn
    THEN {TypeMin(t), Add(TypeMin(t), Num(1)), Num(-1), Num(0), Num(1), Num(5),
          Sub(TypeMax(t), Num(1)), TypeMax(t)}
    ELSE {Num(0), Num(1), Num(5), TypeMax(make_signed(t)),
          Add(TypeMax(make_signed(t)), Num(1)), Sub(TypeMax(t), Num(5)),
          Sub(TypeMax(t), Num(1)), TypeMax(t)}

\* ------------------------------------------------------------------------
\* SpecDiff: one call of detail::iota_minus<Val>(v0, v1)
\* ------------------------------------------------------------------------

InitDiff ==
    /\ Val \in IntegralTypes
    /\ v0 \in Samples(Val)
    /\ v1 \in Samples(Val)
    /\ pc = "call"
    /\ ret = NoRet
    /\ IdleIota /\ IdleClosed /\ IdleTake
    /\ start = Num(0) /\ K = 0 /\ hist = NoHist

CallIotaMinus ==
    /\ pc = "call"
    /\ \E r \in iota_minus(Val, v0, v1) :
          ret' = [type |-> iota_difference_t(Val), val |-> r,
                  ovf |-> iota_minus_overflows(Val, v0, v1)]
    /\ pc' = "returned"
    /\ UNCHANGED <<Val, diffVars, iotaVars, closedVars, takeVars, start, K, hist>>

NextDiff == CallIotaMinus

SpecDiff == InitDiff /\ [][NextDiff]_vars

\* ------------------------------------------------------------------------
\* SpecIota: an iota_view<Val> made by view::iota(value) / view::ints(value)
\* and a second one, that_, it is compared with
\* ------------------------------------------------------------------------

\* iota_fn::operator()(Val) and ints_fn::operator()(Val)
iota_fn_call(value) == value

Positions(t) ==
    IF t.sgn
    THEN {TypeMin(t), Num(0), Sub(TypeMax(t), Num(1)), TypeMax(t)}
    ELSE {Num(0), Add(TypeMax(make_signed(t)), Num(1)), Sub(TypeMax(t), Num(1)), TypeMax(t)}

\* arguments of advance(n) the caller tries besides a distance it computed
SeekArgs == {Num(-1), Num(2)}

InitIota ==
    /\ Val \in IntegralTypes
    /\ \E s \in Positions(Val) :
          /\ value_ = iota_fn_call(s)
          /\ start = s
    /\ that_ \in Positions(Val)
    /\ pc = "iterating"
    /\ ret = NoRet
    /\ K = 0
    /\ hist = NoHist
    /\ IdleDiff /\ IdleClosed /\ IdleTake

IotaNext ==
    /\ K < MaxSteps
    /\ value_' \in iota_view_next(Val, value_)
    /\ K' = K + 1
    /\ hist' = [hist EXCEPT !.rt = "none"]
    /\ UNCHANGED <<Val, pc, diffVars, ret, that_, closedVars, takeVars, start>>

IotaPrev ==
    /\ K < MaxSteps
    /\ value_' \in iota_view_prev(Val, value_)
    /\ K' = K + 1
    /\ hist' = [hist EXCEPT !.rt = "none", !.onlyNext = FALSE]
    /\ UNCHANGED <<Val, pc, diffVars, ret, that_, closedVars, takeVars, start>>

IotaAdvance ==
    /\ K < MaxSteps
    /\ \E n \in SeekArgs \cup (IF hist.rt = "pending" THEN {ret.val} ELSE {}) :
          /\ value_' \in iota_view_advance(Val, value_, n)
          /\ hist' = [hist EXCEPT
                         !.rt = IF hist.rt = "pending" /\ n = ret.val
                                THEN "done" ELSE "none",
                         !.onlyNext = FALSE]
    /\ K' = K + 1
    /\ UNCHANGED <<Val, pc, diffVars, ret, that_, closedVars, takeVars, start>>

IotaDistanceTo ==
    /\ hist.rt = "none"
    /\ \E r \in iota_view_distance_to(Val, value_, that_) :
          ret' = [type |-> iota_difference_t(Val), val |-> r,
                  ovf |-> iota_minus_overflows(Val, that_, value_)]
    /\ hist' = [hist EXCEPT !.rt = "pending"]
    /\ UNCHANGED <<Val, pc, diffVars, iotaVars, closedVars, takeVars, start, K>>

NextIota == IotaNext \/ IotaPrev \/ IotaAdvance \/ IotaDistanceTo

SpecIota == InitIota /\ [][NextIota]_vars

\* C4: for every integral Val and every two positions a (value_) and b
\* (that_), d = a.distance_to(b) is computed without overflow of the Distance
\* type, and after a.advance(d) the two generators are at the same value.
C4_DistanceRoundTrip ==
    /\ (hist.rt \in {"pending", "done"} => ~ret.ovf)
    /\ (hist.rt = "done" => iota_view_current(value_) = iota_view_current(that_))

\* C8 as stated: after K calls of next() and nothing else the generator
\* made from start is at start + K (in Val's arithmetic), for every start up
\* to the maximum of the type, and done() is false.
C8_StartPlusKEverywhere ==
    /\ (hist.onlyNext =>
            iota_view_current(value_) = Conv(Add(start, Num(K)), Val))
    /\ ~iota_view_done

\* C8 as amended: the same whenever start + K does not exceed the maximum of
\* Val, and modulo 2^width for the unsigned and narrower-than-int types;
\* done() is false in every state.
C8_StartPlusKInRange ==
    /\ ((/\ hist.onlyNext
         /\ \/ InRange(Add(start, Num(K)), Val)
            \/ ~Val.sgn
            \/ Val.bits < IntBits) =>
            iota_view_current(value_) = Conv(Add(start, Num(K)), Val))
    /\ ~iota_view_done

\* three calls of next() from max - 1 of a 32-bit unsigned type, and three
\* from 0 of a 64-bit signed type
C8_Witness ==
    /\ hist.onlyNext /\ K = 3
    /\ \/ (~Val.sgn /\ Val.bits = 32 /\ start = Sub(TypeMax(Val), Num(1))
            /\ value_ = Num(1))
       \/ (Val.sgn /\ Val.bits = 64 /\ start = Num(0) /\ value_ = Num(3))

\* ------------------------------------------------------------------------
\* Spec: a closed_iota_view<Val> and the calls next(), prev(), advance(n)
\* ------------------------------------------------------------------------

Obj == [from_ |-> from_, to_ |-> to_, done_ |-> done_]

\* arguments of closed_iota_view::advance the caller tries
ClosedSeekArgs == {Num(-1), Num(1), Num(10)}

Init ==
    /\ Val \in IntegralTypes
    /\ \E f \in Positions(Val), t \in Positions(Val) :
          /\ from_ = closed_iota_view(f, t).from_
          /\ to_ = closed_iota_view(f, t).to_
          /\ done_ = closed_iota_view(f, t).done_
          /\ start = f
    /\ pc = "iterating"
    /\ ret = NoRet
    /\ K = 0
    /\ hist = NoHist
    /\ IdleDiff /\ IdleIota /\ IdleTake

ClosedNext ==
    /\ pc = "iterating" /\ K < MaxSteps
    /\ \E o \in closed_iota_view_next(Val, Obj) :
          /\ from_' = o.from_ /\ to_' = o.to_ /\ done_' = o.done_
    /\ K' = K + 1
    /\ UNCHANGED <<Val, pc, diffVars, ret, iotaVars, takeVars, start, hist>>

ClosedPrev ==
    /\ pc = "iterating" /\ K < MaxSteps
    /\ \E o \in closed_iota_view_prev(Val, Obj) :
          /\ from_' = o.from_ /\ to_' = o.to_ /\ done_' = o.done_
    /\ K' = K + 1
    /\ hist' = [hist EXCEPT !.onlyNext = FALSE, !.prev = TRUE,
                            !.moved = (hist.moved \/ done_)]
    /\ UNCHANGED <<Val, pc, diffVars, ret, iotaVars, takeVars, start>>

ClosedAdvance ==
    /\ pc = "iterating" /\ K < MaxSteps
    /\ \E n \in ClosedSeekArgs :
        \E r \in closed_iota_view_advance(Val, Obj, n) :
          /\ from_' = r.obj.from_ /\ to_' = r.obj.to_ /\ done_' = r.obj.done_
          /\ pc' = IF r.failed THEN "aborted" ELSE pc
          /\ hist' = [hist EXCEPT
                         !.onlyNext = FALSE,
                         !.moved = (hist.moved \/ done_),
                         !.under = (hist.under \/
                                    (~r.failed /\
                                     Less(Add(from_, n), TypeMin(Val))))]
    /\ K' = K + 1
    /\ UNCHANGED <<Val, diffVars, ret, iotaVars, takeVars, start>>

Next == ClosedNext \/ ClosedPrev \/ ClosedAdvance

Spec == Init /\ [][Next]_vars

\* the i-th successor of the value the view was constructed with
Succ(i) == Conv(Add(start, Num(i)), Val)

\* i increments from start involve no signed overflow
Defined(i) ==
    ~Val.sgn \/ Val.bits < IntBits \/ InRange(Add(start, Num(i)), Val)

\* C2: driven by next() alone, a view whose bound is first reached after k
\* increments is, after K <= k calls, not done and at the K-th successor of
\* its start; it is done from the (k+1)-th call on, and from_ stays at to_.
C2_InclusiveRange ==
    hist.onlyNext =>
        LET hits == {i \in 0..(K - 1) : Succ(i) = to_}
        IN  IF hits = {}
            THEN Defined(K) =>
                    /\ closed_iota_view_current(Obj) = Succ(K)
                    /\ ~closed_iota_view_done(Obj)
            ELSE \A k \in hits :
                    ((\A j \in hits : k <= j) /\ Defined(k)) =>
                        /\ closed_iota_view_current(Obj) = to_
                        /\ closed_iota_view_done(Obj)

\* the bound max, one increment away from the start max - 1, has been
\* yielded, and two more calls of next() were made
C2_Witness ==
    /\ hist.onlyNext /\ K = 3
    /\ start = Sub(TypeMax(Val), Num(1)) /\ to_ = TypeMax(Val)
    /\ from_ = to_ /\ done_

C7_FinishedSticky ==
    [][closed_iota_view_done(Obj) => closed_iota_view_done(Obj)']_vars

\* a view that is done and was moved by prev() or advance(n) afterwards
C7_Witness == done_ /\ hist.moved /\ from_ # to_

\* C9 as stated: in every reachable state done_ implies from_ = to_.
C9_FinishedOnBound == done_ => from_ = to_

\* C9 as amended: done_ implies from_ = to_ as long as neither prev() nor
\* advance(n) has been called on the view since it became done.
C9_FinishedOnBoundUnlessMoved == (done_ /\ ~hist.moved) => from_ = to_

\* a view that became done after prev() and advance(n) calls
C9_Witness == done_ /\ ~hist.moved /\ hist.prev /\ from_ = to_ /\ K = 3

\* ------------------------------------------------------------------------
\* SpecBounded: view::iota(from, to) / view::ints(from, to) on one pair of
\* the same integral type, in both representations, read side by side
\* ------------------------------------------------------------------------

InitBounded ==
    /\ Val \in IntegralTypes
    /\ \E f \in Samples(Val), t \in Samples(Val) :
          /\ \E tv \in iota_fn_impl_take(Val, f, t) :
                /\ value_ = tv.value_
                /\ count_ = tv.count_
          /\ from_ = iota_fn_impl_closed(f, t).from_
          /\ to_ = iota_fn_impl_closed(f, t).to_
          /\ done_ = iota_fn_impl_closed(f, t).done_
          /\ start = f
    /\ that_ = Num(0)
    /\ outT = <<>> /\ outC = <<>>
    /\ pc = "iterating"
    /\ ret = NoRet
    /\ K = 0
    /\ hist = NoHist
    /\ IdleDiff

\* the consumer reads the current element of the take_view and steps it
TakeRead ==
    /\ ~take_view_done(count_, Len(outT))
    /\ Len(outT) < MaxSteps
    /\ outT' = Append(outT, iota_view_current(value_))
    /\ value_' \in iota_view_next(Val, value_)
    /\ UNCHANGED <<Val, pc, diffVars, ret, that_, closedVars, count_, outC,
                   start, K, hist>>

\* the consumer reads the current element of the closed view and steps it
ClosedRead ==
    /\ ~closed_iota_view_done(Obj)
    /\ Len(outC) < MaxSteps
    /\ outC' = Append(outC, closed_iota_view_current(Obj))
    /\ \E o \in closed_iota_view_next(Val, Obj) :
          /\ from_' = o.from_ /\ to_' = o.to_ /\ done_' = o.done_
    /\ UNCHANGED <<Val, pc, diffVars, ret, iotaVars, count_, outT,
                   start, K, hist>>

NextBounded == TakeRead \/ ClosedRead

SpecBounded == InitBounded /\ [][NextBounded]_vars

\* C1: for every start <= end of the same integral type the take_view built
\* by iota(start, end) has the count end - start + 1 (the mathematical
\* value), its i-th element is start + i - 1 and its last element is end.
C1_CountAndElements ==
    Leq(start, to_) =>
        /\ count_ = Add(Sub(to_, start), Num(1))
        /\ \A i \in 1..Len(outT) : outT[i] = Add(start, Num(i - 1))
        /\ (take_view_done(count_, Len(outT)) =>
                Len(outT) > 0 /\ outT[Len(outT)] = to_)

\* C10: for start <= end, and for start > end on unsigned types, the
\* take_view and the closed_iota_view built from the same pair give the same
\* values in the same order and end after the same number of them.
C10_SameSequence ==
    (Leq(start, to_) \/ ~Val.sgn) =>
        /\ \A i \in 1..Len(outT) : i <= Len(outC) => outT[i] = outC[i]
        /\ (take_view_done(count_, Len(outT)) => Len(outC) <= Len(outT))
        /\ (closed_iota_view_done(Obj) => Len(outT) <= Len(outC))

\* half of the range of an unsigned type t: 2^(bits - 1)
HalfRange(t) == Add(TypeMax(make_signed(t)), Num(1))

\* C5: for every integral Val of width 8, 16, 32 or 64 the Distance type the
\* resolver selects is signed and holds max(Val) - min(Val) without overflow;
\* when Val - Val has the type Val, Distance is strictly wider than it.
C5_DistanceHoldsFullRange ==
    pc = "returned" =>
        /\ ret.type.sgn
        /\ InRange(Sub(TypeMax(Val), TypeMin(Val)), ret.type)
        /\ (difference_t(Val) = Val => ret.type.bits > difference_t(Val).bits)

\* C6 as stated: for every unsigned Val, iota_minus(v0, v1) is the wraparound
\* difference v0 - v1 at Val's width read as a signed two's-complement
\* number; it is negative exactly when v0 is cyclically behind v1 by less
\* than half the range, and it is antisymmetric (half-range point excepted).
C6_ReinterpretedAtEveryWidth ==
    (pc = "returned" /\ ~Val.sgn) =>
        LET back == Conv(Sub(v1, v0), Val)
        IN  /\ ret.val = Conv(Conv(Sub(v0, v1), Val), make_signed(Val))
            /\ (back # HalfRange(Val) =>
                    /\ IsNeg(ret.val) <=> (back # Num(0) /\ Less(back, HalfRange(Val)))
                    /\ \A d \in iota_minus(Val, v1, v0) : ret.val = Neg(d))

\* C6 as amended: the reinterpretation holds where Distance has the width of
\* Val (64 bits); a 32-bit Val gives the wraparound difference zero-extended
\* (never negative); an 8- or 16-bit Val, promoted to int, gives the exact
\* difference v0 - v1.
C6_UnsignedDistanceByWidth ==
    (pc = "returned" /\ ~Val.sgn) =>
        LET back == Conv(Sub(v1, v0), Val)
        IN  IF Val.bits < IntBits
            THEN /\ ret.val = Sub(v0, v1)
                 /\ \A d \in iota_minus(Val, v1, v0) : ret.val = Neg(d)
            ELSE IF ret.type.bits > Val.bits
            THEN /\ ret.val = Conv(Sub(v0, v1), Val)
                 /\ ~IsNeg(ret.val)
            ELSE /\ ret.val = Conv(Conv(Sub(v0, v1), Val), make_signed(Val))
                 /\ IsNeg(ret.val) <=> (back # Num(0) /\ Leq(back, HalfRange(Val)))
                 /\ (back # HalfRange(Val) =>
                        \A d \in iota_minus(Val, v1, v0) : ret.val = Neg(d))

\* a 64-bit unsigned v0 just behind v1 gives a negative distance
C6_Witness ==
    /\ pc = "returned" /\ ~Val.sgn /\ Val.bits = 64
    /\ v0 = Num(1) /\ v1 = Num(5) /\ ret.val = Num(-4)

====
